---- MODULE Spec2Model ----
(***************************************************************************)
(* nano-prettier: applyTextDiff (Scripts/main.js).  A text is a sequence   *)
(* of one-character strings; offsets are 0-based as in the JavaScript.     *)
(***************************************************************************)
EXTENDS Integers, Sequences, FiniteSets, TLC

VARIABLES
    original,            \* argument `original`
    formatted,           \* argument `formatted`
    selectedRanges,      \* argument `selectedRanges`
    pc,                  \* position inside applyTextDiff
    originalWithCursors, \* local `originalWithCursors`
    diffs,               \* local `diffs` (with the trailing empty EQUAL)
    idx,                 \* 1-based position of the for-of loop in `diffs`
    selections,          \* local `selections`: entries <<start>> or <<start, end>>
    offset,              \* local `offset`
    toRemove,            \* local `toRemove`
    edits,               \* the calls made on `edit`, in call order
    result,              \* the returned ranges
    \* The save hook of one text editor (onDidAddTextEditor):
    env,                 \* what the lookups of maybeFormat find
    buffer,              \* editor.document text
    editorSelections,    \* editor.selectedRanges
    lastFormattedText,   \* closure variable: <<>> is undefined, <<t>> the text t
    attempts,            \* maybeFormat calls waiting in `await runAsync(...)`
    timers,              \* pending setTimeout(() => editor.save())
    runs,                \* formatter processes started
    resaves,             \* editor.save() calls made by the timers
    toasts,              \* notifications added
    userSaves,           \* saves made by the user
    userEdits            \* edits made by the user

diffVars == <<original, formatted, selectedRanges, pc, originalWithCursors, diffs,
              idx, selections, offset, toRemove, edits, result>>

hookVars == <<env, buffer, editorSelections, lastFormattedText, attempts, timers,
              runs, resaves, toasts, userSaves, userEdits>>

vars == <<diffVars, hookVars>>

\* Bounds of the explored inputs.
MaxOrig == 3
MaxFmt == 2
MaxEmbedded == 6

CURSOR_MARKER == <<"#">>

PlainChars == {"a", "b"}

Min(a, b) == IF a < b THEN a ELSE b
Max(a, b) == IF a > b THEN a ELSE b

\* String.prototype.slice(from, to) for non-negative arguments.
Slice(s, from, to) ==
    LET lo == Min(Max(from, 0), Len(s))
        hi == Min(Max(to, 0), Len(s))
    IN  IF lo >= hi THEN <<>> ELSE SubSeq(s, lo + 1, hi)

\* String.prototype.indexOf(pat, from): first index >= from, or -1.
IndexOf(s, pat, from) ==
    LET hits == {i \in Max(from, 0)..(Len(s) - Len(pat)) : Slice(s, i, i + Len(pat)) = pat}
    IN  IF hits = {} THEN -1 ELSE CHOOSE i \in hits : \A j \in hits : i <= j

Includes(s, pat) == IndexOf(s, pat, 0) # -1

NewRange(start, end) == [start |-> start, end |-> end]

\* A variant that looks for the marker in the original text only.
UsesFallbackOriginalOnly(o, f) == Includes(o, CURSOR_MARKER)

\* if (original.includes(CURSOR_MARKER) || formatted.includes(CURSOR_MARKER))
UsesFallback(o, f) == Includes(o, CURSOR_MARKER) \/ Includes(f, CURSOR_MARKER)

\* A variant that resumes copying at the start of the selection just embedded.
RECURSIVE EmbedLoopResumesAtStart(_, _, _, _)
EmbedLoopResumesAtStart(o, ranges, acc, lastEnd) ==
    IF ranges = <<>>
    THEN acc \o Slice(o, lastEnd, Len(o))
    ELSE LET selection == Head(ranges)
         IN  EmbedLoopResumesAtStart(o, Tail(ranges),
                       acc \o Slice(o, lastEnd, selection.start)
                           \o CURSOR_MARKER
                           \o Slice(o, selection.start, selection.end)
                           \o CURSOR_MARKER,
                       selection.start)

\* The loop that inserts cursor markers around each selection.
RECURSIVE EmbedLoop(_, _, _, _)
EmbedLoop(o, ranges, acc, lastEnd) ==
    IF ranges = <<>>
    THEN acc \o Slice(o, lastEnd, Len(o))
    ELSE LET selection == Head(ranges)
         IN  EmbedLoop(o, Tail(ranges),
                       acc \o Slice(o, lastEnd, selection.start)
                           \o CURSOR_MARKER
                           \o Slice(o, selection.start, selection.end)
                           \o CURSOR_MARKER,
                       selection.end)

Embed(o, ranges) == EmbedLoop(o, ranges, <<>>, 0)

\* fast-diff (required at main.js:1, not among the sources): a character diff
\* of text1 against text2.  A script is a sequence of one-character steps
\* <<op, ch>>; EditScripts(a, b, k) is every script from a to b with at most
\* k DELETE/INSERT steps.
EQUAL == "EQUAL"
INSERT == "INSERT"
DELETE == "DELETE"

RECURSIVE EditDistance(_, _)
EditDistance(a, b) ==
    IF a = <<>> THEN Len(b)
    ELSE IF b = <<>> THEN Len(a)
    ELSE IF Head(a) = Head(b) THEN EditDistance(Tail(a), Tail(b))
    ELSE 1 + Min(EditDistance(Tail(a), b), EditDistance(a, Tail(b)))

RECURSIVE EditScripts(_, _, _)
EditScripts(a, b, k) ==
    IF Len(a) - Len(b) > k \/ Len(b) - Len(a) > k THEN {}
    ELSE IF a = <<>> /\ b = <<>> THEN {<<>>}
    ELSE (IF a # <<>> /\ b # <<>> /\ Head(a) = Head(b)
          THEN {<<<<EQUAL, Head(a)>>>> \o s : s \in EditScripts(Tail(a), Tail(b), k)}
          ELSE {})
         \cup
         (IF a # <<>> /\ k > 0
          THEN {<<<<DELETE, Head(a)>>>> \o s : s \in EditScripts(Tail(a), b, k - 1)}
          ELSE {})
         \cup
         (IF b # <<>> /\ k > 0
          THEN {<<<<INSERT, Head(b)>>>> \o s : s \in EditScripts(a, Tail(b), k - 1)}
          ELSE {})

\* Consecutive steps of one kind form one segment [op, str]; no segment is empty.
RECURSIVE Segments(_)
Segments(script) ==
    IF script = <<>> THEN <<>>
    ELSE LET rest == Segments(Tail(script))
             op == Head(script)[1]
             ch == Head(script)[2]
         IN  IF rest # <<>> /\ rest[1].op = op
             THEN <<[op |-> op, str |-> <<ch>> \o rest[1].str]>> \o Tail(rest)
             ELSE <<[op |-> op, str |-> <<ch>>]>> \o rest

\* The results an LCS-style diff may return: the segment lists of the scripts
\* with the fewest DELETE/INSERT steps.
Diff(text1, text2) ==
    {Segments(s) : s \in EditScripts(text1, text2, EditDistance(text1, text2))}

\* A variant that opens a new entry at every marker.
MarkSelectionAlwaysOpens(sels, off) == Append(sels, <<off>>)

\* A variant that closes an entry one character late.
MarkSelectionClosesLate(sels, off) ==
    IF sels = <<>> \/ Len(sels[Len(sels)]) = 2
    THEN Append(sels, <<off>>)
    ELSE [sels EXCEPT ![Len(sels)] = Append(@, off + 1)]

\* One marker found in a DELETE segment: open a new entry or close the last one.
MarkSelection(sels, off) ==
    IF sels = <<>> \/ Len(sels[Len(sels)]) = 2
    THEN Append(sels, <<off>>)
    ELSE [sels EXCEPT ![Len(sels)] = Append(@, off)]

\* A variant that counts the marker as deleted text.
DropMarkerKept(rem) == rem

\* toRemove -= CURSOR_MARKER.length
DropMarker(rem) == rem - Len(CURSOR_MARKER)

\* A variant that handles the first marker of a segment and stops.
ScanCursorsFirstOnly(str, cursorIndex, sels, rem, off) ==
    LET next == IndexOf(str, CURSOR_MARKER, cursorIndex + 1)
    IN  IF next = -1
        THEN [selections |-> sels, toRemove |-> rem]
        ELSE [selections |-> MarkSelection(sels, off), toRemove |-> DropMarker(rem)]

\* The while (true) loop over the markers of one DELETE segment.
RECURSIVE ScanCursors(_, _, _, _, _)
ScanCursors(str, cursorIndex, sels, rem, off) ==
    LET next == IndexOf(str, CURSOR_MARKER, cursorIndex + 1)
    IN  IF next = -1
        THEN [selections |-> sels, toRemove |-> rem]
        ELSE ScanCursors(str, next, MarkSelection(sels, off), DropMarker(rem), off)

\* A variant that advances over EQUAL text only.
AdvanceOffsetEqualOnly(off, segment) ==
    IF segment.op = EQUAL THEN off + Len(segment.str) ELSE off

\* A variant that advances one character too far.
AdvanceOffsetOneTooFar(off, segment) == off + Len(segment.str) + 1

\* offset += str.length, reached by EQUAL and INSERT segments only.
AdvanceOffset(off, segment) == off + Len(segment.str)

\* A variant whose range also covers the character at `end`.
ReplaceThroughEnd(start, end, text) == [start |-> start, end |-> end + 1, text |-> text]

\* edit.replace(new Range(start, end), text)
Replace(start, end, text) == [start |-> start, end |-> end, text |-> text]

\* A variant that returns every entry as a caret at its start.
ToRangeCaretOnly(s) == NewRange(s[1], s[1])

\* A variant that ends an entry without a second coordinate at 0.
ToRangeUnmatchedAtZero(s) == NewRange(s[1], IF Len(s) = 2 THEN s[2] ELSE 0)

\* selections.map((s) => new Range(s[0], s[1] !== undefined ? s[1] : s[0]))
ToRange(s) == NewRange(s[1], IF Len(s) = 2 THEN s[2] ELSE s[1])

ToRanges(sels) == [i \in 1..Len(sels) |-> ToRange(sels[i])]

(***************************************************************************)
(* Inputs.                                                                 *)
(***************************************************************************)
Texts(chars, n) == UNION {[1..k -> chars] : k \in 0..n}

Ranges(n) == {NewRange(s, e) : s \in 0..n, e \in 0..n}

\* Selections as the editor hands them over: start <= end, sorted, non-overlapping.
IsSelectionList(rs) ==
    /\ \A i \in 1..Len(rs) : rs[i].start <= rs[i].end
    /\ \A i \in 1..(Len(rs) - 1) : rs[i].end <= rs[i + 1].start

\* The lists over a text of n characters whose embedding (two markers per
\* selection) is at most MaxEmbedded characters long.
SelectionLists(n) ==
    {rs \in UNION {[1..k -> Ranges(n)] : k \in 0..((MaxEmbedded - n) \div 2)} :
        IsSelectionList(rs)}

\* The scenario of the specification: "let x=1" with a caret before "=".
ScenarioOriginal == <<"l", "e", "t", " ", "x", "=", "1">>
ScenarioFormatted == <<"l", "e", "t", " ", "x", " ", "=", " ", "1">>
ScenarioSelections == <<NewRange(5, 5)>>

\* No editor is involved: applyTextDiff is run on its arguments alone.
HookIdle ==
    /\ env = [filePath |-> FALSE, executable |-> FALSE]
    /\ buffer = <<>>
    /\ editorSelections = <<>>
    /\ lastFormattedText = <<>>
    /\ attempts = <<>>
    /\ timers = 0
    /\ runs = 0
    /\ resaves = 0
    /\ toasts = 0
    /\ userSaves = 0
    /\ userEdits = 0

Init ==
    /\ HookIdle
    /\ \/ /\ original \in Texts(PlainChars \cup {CURSOR_MARKER[1]}, MaxOrig)
          /\ formatted \in Texts(PlainChars \cup {CURSOR_MARKER[1]}, MaxFmt)
          /\ selectedRanges \in SelectionLists(Len(original))
       \/ /\ original = ScenarioOriginal
          /\ formatted = ScenarioFormatted
          /\ selectedRanges = ScenarioSelections
    /\ pc = "entry"
    /\ originalWithCursors = <<>>
    /\ diffs = <<>>
    /\ idx = 0
    /\ selections = <<>>
    /\ offset = 0
    /\ toRemove = 0
    /\ edits = <<>>
    /\ result = <<>>

(***************************************************************************)
(* applyTextDiff, one action per step.                                     *)
(***************************************************************************)
\* Marker collision: one whole-buffer replacement, the selections handed back.
Fallback ==
    /\ pc = "entry"
    /\ UsesFallback(original, formatted)
    /\ edits' = Append(edits, Replace(0, Len(original), formatted))
    /\ result' = selectedRanges
    /\ pc' = "done"
    /\ UNCHANGED <<original, formatted, selectedRanges, originalWithCursors, diffs,
                   idx, selections, offset, toRemove>>
    /\ UNCHANGED hookVars

\* Embed the markers, diff, and append the extra empty EQUAL.
EmbedAndDiff ==
    /\ pc = "entry"
    /\ ~UsesFallback(original, formatted)
    /\ originalWithCursors' = Embed(original, selectedRanges)
    /\ \E d \in Diff(originalWithCursors', formatted) :
           diffs' = Append(d, [op |-> EQUAL, str |-> <<>>])
    /\ selections' = <<>>
    /\ offset' = 0
    /\ toRemove' = 0
    /\ idx' = 1
    /\ pc' = "loop"
    /\ UNCHANGED <<original, formatted, selectedRanges, edits, result>>
    /\ UNCHANGED hookVars

InLoop == pc = "loop" /\ idx <= Len(diffs)

StepDelete ==
    /\ InLoop
    /\ diffs[idx].op = DELETE
    /\ LET scan == ScanCursors(diffs[idx].str, -1, selections,
                               toRemove + Len(diffs[idx].str), offset)
       IN  /\ selections' = scan.selections
           /\ toRemove' = scan.toRemove
    /\ idx' = idx + 1
    /\ UNCHANGED <<original, formatted, selectedRanges, pc, originalWithCursors,
                   diffs, offset, edits, result>>
    /\ UNCHANGED hookVars

StepEqual ==
    /\ InLoop
    /\ diffs[idx].op = EQUAL
    /\ edits' = IF toRemove # 0
                THEN Append(edits, Replace(offset, offset + toRemove, <<>>))
                ELSE edits
    /\ toRemove' = 0
    /\ offset' = AdvanceOffset(offset, diffs[idx])
    /\ idx' = idx + 1
    /\ UNCHANGED <<original, formatted, selectedRanges, pc, originalWithCursors,
                   diffs, selections, result>>
    /\ UNCHANGED hookVars

StepInsert ==
    /\ InLoop
    /\ diffs[idx].op = INSERT
    /\ edits' = Append(edits, Replace(offset, offset + toRemove, diffs[idx].str))
    /\ toRemove' = 0
    /\ offset' = AdvanceOffset(offset, diffs[idx])
    /\ idx' = idx + 1
    /\ UNCHANGED <<original, formatted, selectedRanges, pc, originalWithCursors,
                   diffs, selections, result>>
    /\ UNCHANGED hookVars

Return ==
    /\ pc = "loop"
    /\ idx > Len(diffs)
    /\ result' = ToRanges(selections)
    /\ pc' = "done"
    /\ UNCHANGED <<original, formatted, selectedRanges, originalWithCursors, diffs,
                   idx, selections, offset, toRemove, edits>>
    /\ UNCHANGED hookVars

Next ==
    \/ Fallback
    \/ EmbedAndDiff
    \/ StepDelete
    \/ StepEqual
    \/ StepInsert
    \/ Return

Spec == Init /\ [][Next]_vars

(***************************************************************************)
(* The segment loop alone, run on any segment list: EQUAL and INSERT text  *)
(* without markers, DELETE text with any number of markers, balanced or    *)
(* not.                                                                    *)
(***************************************************************************)
MaxSteps == 4

SegmentSteps == {<<EQUAL, "a">>, <<INSERT, "a">>, <<DELETE, "a">>, <<DELETE, CURSOR_MARKER[1]>>}

SegmentLists == {Segments(s) : s \in UNION {[1..k -> SegmentSteps] : k \in 0..MaxSteps}}

RECURSIVE TextOf(_, _)
TextOf(ds, kinds) ==
    IF ds = <<>> THEN <<>>
    ELSE (IF Head(ds).op \in kinds THEN Head(ds).str ELSE <<>>) \o TextOf(Tail(ds), kinds)

\* The state at the head of the for-of loop, diffs being any segment list with
\* the extra empty EQUAL appended.
SegInit ==
    /\ HookIdle
    /\ \E d \in SegmentLists :
           /\ diffs = Append(d, [op |-> EQUAL, str |-> <<>>])
           /\ originalWithCursors = TextOf(d, {EQUAL, DELETE})
           /\ original = SelectSeq(TextOf(d, {EQUAL, DELETE}),
                                   LAMBDA c : c # CURSOR_MARKER[1])
           /\ formatted = TextOf(d, {EQUAL, INSERT})
    /\ selectedRanges = <<>>
    /\ pc = "loop"
    /\ idx = 1
    /\ selections = <<>>
    /\ offset = 0
    /\ toRemove = 0
    /\ edits = <<>>
    /\ result = <<>>

SegNext ==
    \/ StepDelete
    \/ StepEqual
    \/ StepInsert
    \/ Return

SegSpec == SegInit /\ [][SegNext]_vars

(***************************************************************************)
(* The save hook: onWillSave -> maybeFormat -> then/catch, for one editor. *)
(***************************************************************************)
MaxDoc == 2
MaxUserSaves == 2
MaxUserEdits == 1
MaxRuns == 2

DocTexts == Texts(PlainChars, MaxDoc)

\* The editor's selections: none or one.
DocSelections(n) == {rs \in UNION {[1..k -> Ranges(n)] : k \in 0..1} : IsSelectionList(rs)}

NoParserPrefix == <<"[error] No parser could be inferred for file">>

\* What the formatter may write to stderr, as a sequence of message parts.
StderrTexts ==
    { <<>>,
      <<"[error] No parser could be inferred for file", ": notes.xyz">>,
      <<"[error] notes.js: SyntaxError">> }

\* String.prototype.startsWith
StartsWith(s, prefix) == Len(s) >= Len(prefix) /\ SubSeq(s, 1, Len(prefix)) = prefix

\* The whole for-of loop over diffs[i..], from the locals st.
RECURSIVE TranslateFrom(_, _, _)
TranslateFrom(ds, i, st) ==
    IF i > Len(ds)
    THEN st
    ELSE IF ds[i].op = DELETE
    THEN LET scan == ScanCursors(ds[i].str, -1, st.selections,
                                 st.toRemove + Len(ds[i].str), st.offset)
         IN  TranslateFrom(ds, i + 1, [st EXCEPT !.selections = scan.selections,
                                                 !.toRemove = scan.toRemove])
    ELSE TranslateFrom(ds, i + 1,
             [st EXCEPT
                 !.edits = IF ds[i].op = INSERT \/ st.toRemove # 0
                           THEN Append(@, Replace(st.offset, st.offset + st.toRemove,
                                                  IF ds[i].op = INSERT THEN ds[i].str ELSE <<>>))
                           ELSE @,
                 !.toRemove = 0,
                 !.offset = AdvanceOffset(@, ds[i])])

\* applyTextDiff as one call, d being the result of diff(): the edit.replace
\* calls it makes and the ranges it returns.
ApplyTextDiff(o, f, ranges, d) ==
    IF UsesFallback(o, f)
    THEN [edits |-> <<Replace(0, Len(o), f)>>, result |-> ranges]
    ELSE LET st == TranslateFrom(Append(d, [op |-> EQUAL, str |-> <<>>]), 1,
                                 [selections |-> <<>>, offset |-> 0, toRemove |-> 0,
                                  edits |-> <<>>])
         IN  [edits |-> st.edits, result |-> ToRanges(st.selections)]

\* editor.edit: the edit.replace calls take effect in call order, each on the
\* document as the calls before it left it.
RECURSIVE EditorEdit(_, _)
EditorEdit(doc, ops) ==
    IF ops = <<>>
    THEN doc
    ELSE EditorEdit(Slice(doc, 0, Head(ops).start) \o Head(ops).text
                        \o Slice(doc, Head(ops).end, Len(doc)),
                    Tail(ops))

\* A variant that never takes the text for already formatted.
IsLastFormattedNever(last, text) == FALSE

\* if (lastFormattedText === wholeFileText) return
IsLastFormatted(last, text) == last = <<text>>

\* if (prettier.code !== 0) throw new Error(prettier.stderr)
Failed(code) == code # 0

\* error.message.startsWith("[error] No parser could be inferred for file")
IsNoParserError(message) == StartsWith(message, NoParserPrefix)

RemoveAt(seq, i) == SubSeq(seq, 1, i - 1) \o SubSeq(seq, i + 1, Len(seq))

HookInit ==
    /\ original = <<>>
    /\ formatted = <<>>
    /\ selectedRanges = <<>>
    /\ pc = "idle"
    /\ originalWithCursors = <<>>
    /\ diffs = <<>>
    /\ idx = 0
    /\ selections = <<>>
    /\ offset = 0
    /\ toRemove = 0
    /\ edits = <<>>
    /\ result = <<>>
    /\ env \in [filePath : BOOLEAN, executable : BOOLEAN]
    /\ buffer \in DocTexts
    /\ editorSelections \in DocSelections(Len(buffer))
    /\ lastFormattedText = <<>>
    /\ attempts = <<>>
    /\ timers = 0
    /\ runs = 0
    /\ resaves = 0
    /\ toasts = 0
    /\ userSaves = 0
    /\ userEdits = 0

\* A formatter has exited and its maybeFormat call has not resumed yet: the
\* continuation runs before any other event is handled.
Resuming == \E i \in 1..Len(attempts) : attempts[i].exit # <<>>

\* onWillSave: maybeFormat up to `await runAsync(...)`.  An early return
\* resolves to undefined, and the then-handler does nothing.
WillSave ==
    IF /\ env.filePath
       /\ ~IsLastFormatted(lastFormattedText, buffer)
       /\ env.executable
    THEN /\ runs' = runs + 1
         /\ attempts' = Append(attempts, [text |-> buffer, exit |-> <<>>])
    ELSE UNCHANGED <<runs, attempts>>

UserSave ==
    /\ ~Resuming
    /\ userSaves < MaxUserSaves
    /\ runs < MaxRuns
    /\ userSaves' = userSaves + 1
    /\ WillSave
    /\ UNCHANGED <<env, buffer, editorSelections, lastFormattedText, timers, resaves,
                   toasts, userEdits>>
    /\ UNCHANGED diffVars

\* The timer set by the then-handler fires: editor.save(), hence onWillSave.
TimerSave ==
    /\ ~Resuming
    /\ timers > 0
    /\ runs < MaxRuns
    /\ timers' = timers - 1
    /\ resaves' = resaves + 1
    /\ WillSave
    /\ UNCHANGED <<env, buffer, editorSelections, lastFormattedText, toasts, userSaves,
                   userEdits>>
    /\ UNCHANGED diffVars

\* The user changes the text (and the selections with it).
UserEdit ==
    /\ ~Resuming
    /\ userEdits < MaxUserEdits
    /\ userEdits' = userEdits + 1
    /\ buffer' \in DocTexts \ {buffer}
    /\ editorSelections' \in DocSelections(Len(buffer'))
    /\ UNCHANGED <<env, lastFormattedText, attempts, timers, runs, resaves, toasts,
                   userSaves>>
    /\ UNCHANGED diffVars

\* process.onDidExit: the promise of runAsync resolves.
ProcessExit ==
    /\ ~Resuming
    /\ \E i \in 1..Len(attempts) :
           \E code \in {0, 1} :
               \E out \in IF code = 0 THEN DocTexts ELSE {<<>>} :
                   \E err \in IF code = 0 THEN {<<>>} ELSE StderrTexts :
                       attempts' = [attempts EXCEPT ![i].exit =
                                       <<[code |-> code, stdout |-> out, stderr |-> err]>>]
    /\ UNCHANGED <<env, buffer, editorSelections, lastFormattedText, timers, runs,
                   resaves, toasts, userSaves, userEdits>>
    /\ UNCHANGED diffVars

\* maybeFormat resumes after the await, and the then/catch handlers run.
Resume ==
    \E i \in 1..Len(attempts) :
        /\ attempts[i].exit # <<>>
        /\ attempts' = RemoveAt(attempts, i)
        /\ LET wholeFileText == attempts[i].text
               prettier == attempts[i].exit[1]
           IN  IF Failed(prettier.code)
               THEN \* throw new Error(stderr); the catch handler warns or toasts
                    /\ toasts' = IF IsNoParserError(prettier.stderr) THEN toasts ELSE toasts + 1
                    /\ UNCHANGED <<buffer, editorSelections, lastFormattedText, timers>>
               ELSE IF wholeFileText = prettier.stdout
               THEN UNCHANGED <<buffer, editorSelections, lastFormattedText, timers, toasts>>
               ELSE \E d \in Diff(Embed(wholeFileText, editorSelections), prettier.stdout) :
                        LET call == ApplyTextDiff(wholeFileText, prettier.stdout,
                                                  editorSelections, d)
                        IN  /\ buffer' = EditorEdit(buffer, call.edits)
                            /\ editorSelections' = IF Len(call.result) > 0
                                                   THEN call.result
                                                   ELSE editorSelections
                            /\ lastFormattedText' = <<prettier.stdout>>
                            /\ timers' = timers + 1
                            /\ UNCHANGED toasts
        /\ UNCHANGED <<env, runs, resaves, userSaves, userEdits>>
        /\ UNCHANGED diffVars

HookNext ==
    \/ UserSave
    \/ TimerSave
    \/ UserEdit
    \/ ProcessExit
    \/ Resume

HookSpec == HookInit /\ [][HookNext]_vars

\* One save by the user and nothing else from the user.
FirstSave == userSaves = 0 /\ UserSave

SingleSaveNext ==
    \/ FirstSave
    \/ TimerSave
    \/ ProcessExit
    \/ Resume

SingleSaveSpec == HookInit /\ [][SingleSaveNext]_vars

(***************************************************************************)
(* Vocabulary of the properties, defined apart from the operators above.   *)
(***************************************************************************)
MarkerChar == CURSOR_MARKER[1]

HasMarker(t) == \E i \in 1..Len(t) : t[i] = MarkerChar

Done == pc = "done"

\* applyTextDiff returned through the diff of the marker-embedded text.
DoneByDiff == Done /\ ~HasMarker(original) /\ ~HasMarker(formatted)

\* The operations applied in one pass to the text `o` as it was before any of
\* them: the text up to each start is copied, the range [start, end) is
\* replaced by the operation's text, and copying resumes at end.
RECURSIVE OnePassFrom(_, _, _)
OnePassFrom(o, ops, pos) ==
    IF ops = <<>>
    THEN Slice(o, pos, Len(o))
    ELSE Slice(o, pos, Head(ops).start) \o Head(ops).text
             \o OnePassFrom(o, Tail(ops), Head(ops).end)

OnePass(o, ops) == OnePassFrom(o, ops, 0)

\* The operations with their offsets adjusted for the prior ones: each range is
\* moved back by the net growth (text written minus text removed) so far.
RECURSIVE AdjustFrom(_, _)
AdjustFrom(ops, growth) ==
    IF ops = <<>>
    THEN <<>>
    ELSE LET h == Head(ops)
         IN  <<[start |-> h.start - growth, end |-> h.end - growth, text |-> h.text]>>
                 \o AdjustFrom(Tail(ops), growth + Len(h.text) - (h.end - h.start))

AdjustedForPriorEdits(ops) == AdjustFrom(ops, 0)

\* C1 (as stated): for marker-free O and F, the emitted operations, every
\* [start, end) read as offsets into the unmodified O and applied in one pass,
\* yield exactly F.
C1_SnapshotRoundTrip ==
    DoneByDiff => OnePass(original, edits) = formatted

\* C1 (amended): for marker-free O and F, the emitted operations yield exactly
\* F when applied in one pass to the unmodified O after each operation's
\* offsets are adjusted for the prior operations (moved back by the characters
\* they wrote minus the characters they removed).
C1_AdjustedRoundTrip ==
    DoneByDiff => OnePass(original, AdjustedForPriorEdits(edits)) = formatted

\* C1 witness: a finished diff run that emitted two operations, the first of
\* which changes the length of the text, and that carries a selection.
C1_Witness ==
    /\ DoneByDiff
    /\ Len(edits) >= 2
    /\ Len(edits[1].text) # edits[1].end - edits[1].start
    /\ selectedRanges # <<>>

\* C2 (as stated): the emitted operations are in increasing start order and
\* consecutive operations a, b satisfy a.end <= b.start.
C2_RangesDisjoint ==
    (~HasMarker(original) /\ ~HasMarker(formatted)) =>
        \A i \in 1..(Len(edits) - 1) :
            /\ edits[i].start <= edits[i + 1].start
            /\ edits[i].end <= edits[i + 1].start

\* C2 (amended): the emitted operations are in strictly increasing start
\* order, and each operation starts at or after the end of the text written by
\* the one before it: a.start + len(a.text) <= b.start.  (a.end <= b.start can
\* fail when a removes more characters than are written or kept before b.)
C2_WrittenTextDisjoint ==
    (~HasMarker(original) /\ ~HasMarker(formatted)) =>
        \A i \in 1..(Len(edits) - 1) :
            /\ edits[i].start < edits[i + 1].start
            /\ edits[i].start + Len(edits[i].text) <= edits[i + 1].start

\* C2 witness: two consecutive operations whose ranges overlap as written.
C2_Witness ==
    /\ DoneByDiff
    /\ Len(edits) >= 2
    /\ edits[1].end > edits[2].start

\* C3: on both paths the returned selection list is as long as the input
\* selection list.
C3_SelectionCount ==
    Done => Len(result) = Len(selectedRanges)

\* C3 witness: a finished diff run with two selections and at least one edit.
C3_Witness ==
    /\ DoneByDiff
    /\ Len(selectedRanges) = 2
    /\ edits # <<>>

\* C4: when O or F contains the marker, exactly one operation is emitted,
\* [0, len(O)) replaced by F, no diff is computed and the input selections are
\* returned unchanged.
C4_MarkerCollisionFallback ==
    (Done /\ (HasMarker(original) \/ HasMarker(formatted))) =>
        /\ edits = <<[start |-> 0, end |-> Len(original), text |-> formatted]>>
        /\ result = selectedRanges
        /\ diffs = <<>>
        /\ originalWithCursors = <<>>

\* C4 witness: the fallback taken because of a marker in F alone, with a
\* selection present.
C4_Witness ==
    /\ Done
    /\ HasMarker(formatted)
    /\ ~HasMarker(original)
    /\ original # <<>>
    /\ selectedRanges # <<>>

\* C5: when F equals O (marker-free), no operation is emitted and the returned
\* selections have the start and end offsets of the input selections.
C5_Identity ==
    (DoneByDiff /\ formatted = original) =>
        /\ edits = <<>>
        /\ result = selectedRanges

\* C5 witness: F = O with a caret followed by a non-empty selection.
C5_Witness ==
    /\ DoneByDiff
    /\ formatted = original
    /\ Len(selectedRanges) = 2
    /\ selectedRanges[1].start = selectedRanges[1].end
    /\ selectedRanges[2].start < selectedRanges[2].end

\* The segments as one sequence of one-character steps [op, ch].
RECURSIVE Flat(_)
Flat(ds) ==
    IF ds = <<>>
    THEN <<>>
    ELSE [i \in 1..Len(Head(ds).str) |-> [op |-> Head(ds).op, ch |-> Head(ds).str[i]]]
             \o Flat(Tail(ds))

IsMarkerStep(st) == st.op = DELETE /\ st.ch = MarkerChar

\* The position in Flat(diffs) of the m-th deleted marker (0 if there is none).
NthMarker(m) ==
    LET f == Flat(diffs)
        at == {p \in 1..Len(f) :
                  /\ IsMarkerStep(f[p])
                  /\ Cardinality({q \in 1..p : IsMarkerStep(f[q])}) = m}
    IN  IF at = {} THEN 0 ELSE CHOOSE p \in at : TRUE

\* No INSERT and no DELETE of a non-marker character precedes position p.
NoEditBefore(p) ==
    LET f == Flat(diffs)
    IN  \A q \in 1..(p - 1) :
            /\ f[q].op # INSERT
            /\ (f[q].op = DELETE => f[q].ch = MarkerChar)

IsCaret(r) == r.start = r.end

\* C6 (as stated): a caret at offset k of O, with no INSERT and no non-marker
\* DELETE before the place where the caret was embedded (its opening marker),
\* is returned as a caret at offset k.
C6_CaretPreservedUpToOpening ==
    DoneByDiff =>
        \A i \in 1..Len(selectedRanges) :
            (IsCaret(selectedRanges[i]) /\ NoEditBefore(NthMarker(2 * i - 1))) =>
                (i \in DOMAIN result /\ result[i] = selectedRanges[i])

\* C6 (amended): a caret at offset k of O, with no INSERT and no non-marker
\* DELETE before its closing marker in the diff (so in particular no INSERT
\* between its two markers), is returned as a caret at offset k, whatever the
\* edits after it and the selections before it.
C6_CaretPreservedUpToClosing ==
    DoneByDiff =>
        \A i \in 1..Len(selectedRanges) :
            (IsCaret(selectedRanges[i]) /\ NoEditBefore(NthMarker(2 * i))) =>
                (i \in DOMAIN result /\ result[i] = selectedRanges[i])

\* C6 witness: a caret at k > 0 that is the second selection, untouched text
\* before its closing marker and an edit after it.
C6_Witness ==
    /\ DoneByDiff
    /\ Len(selectedRanges) = 2
    /\ IsCaret(selectedRanges[2])
    /\ selectedRanges[2].start > 0
    /\ NoEditBefore(NthMarker(4))
    /\ edits # <<>>

\* C7: every range returned on the diff path satisfies
\* 0 <= start <= end <= len(F).
C7_RangesWithinFormatted ==
    DoneByDiff =>
        \A i \in 1..Len(result) :
            /\ 0 <= result[i].start
            /\ result[i].start <= result[i].end
            /\ result[i].end <= Len(formatted)

\* C7 witness: a returned non-empty range ending at len(F), after edits that
\* made F shorter than O.
C7_Witness ==
    /\ DoneByDiff
    /\ edits # <<>>
    /\ Len(formatted) < Len(original)
    /\ \E i \in 1..Len(result) :
           result[i].start < result[i].end /\ result[i].end = Len(formatted)

InScenario ==
    /\ original = ScenarioOriginal
    /\ formatted = ScenarioFormatted
    /\ selectedRanges = ScenarioSelections

ScenarioEdits ==
    << [start |-> 5, end |-> 5, text |-> <<" ">>],
       [start |-> 7, end |-> 7, text |-> <<" ">>] >>

\* C8 (as stated): for O = "let x=1", a caret at 5 and F = "let x = 1", the
\* operations insert one space before and one after "=" and the returned
\* selection is a caret at offset 6.
C8_ScenarioCaretAtSix ==
    (Done /\ InScenario) =>
        /\ edits = ScenarioEdits
        /\ result = <<[start |-> 6, end |-> 6]>>

\* C8 (amended): for O = "let x=1", a caret at 5 and F = "let x = 1", the
\* operations insert one space at 5 and one at 7 (before and after "=" in the
\* progressively edited text), and the returned selection lies in [5, 6]: a
\* caret at 6 when the diff places the first INSERT before both markers, a
\* caret at 5 when it places both markers before the INSERT, and the range
\* (5, 6) when the INSERT falls between the markers.
C8_ScenarioCaretAtFiveOrSix ==
    (Done /\ InScenario) =>
        /\ edits = ScenarioEdits
        /\ Len(result) = 1
        /\ result[1] = [start |-> IF NthMarker(1) = 7 THEN 6 ELSE 5,
                        end |-> IF NthMarker(2) = 7 THEN 5 ELSE 6]

\* C8 witness: the scenario finished with the markers deleted before the
\* first space is inserted, the caret returned at 5.
C8_Witness ==
    /\ Done
    /\ InScenario
    /\ NthMarker(2) = 7
    /\ result = <<[start |-> 5, end |-> 5]>>

Embedded == pc \in {"loop", "done"} /\ ~HasMarker(original) /\ ~HasMarker(formatted)

RECURSIVE WithoutMarkers(_)
WithoutMarkers(t) ==
    IF t = <<>> THEN <<>>
    ELSE IF Head(t) = MarkerChar THEN WithoutMarkers(Tail(t))
    ELSE <<Head(t)>> \o WithoutMarkers(Tail(t))

\* C9: the marker-embedded string is len(O) + 2 * (number of selections)
\* long, gives back O when its markers are removed, and has the opening marker
\* of the i-th selection (0-based) at index start_i + 2i and its closing
\* marker at index end_i + 2i + 1.
C9_EmbeddedShape ==
    Embedded =>
        /\ Len(originalWithCursors) = Len(original) + 2 * Len(selectedRanges)
        /\ WithoutMarkers(originalWithCursors) = original
        /\ \A j \in 1..Len(selectedRanges) :
               LET i == j - 1
                   opening == selectedRanges[j].start + 2 * i
                   closing == selectedRanges[j].end + 2 * i + 1
               IN  /\ opening + 1 \in DOMAIN originalWithCursors
                   /\ closing + 1 \in DOMAIN originalWithCursors
                   /\ originalWithCursors[opening + 1] = MarkerChar
                   /\ originalWithCursors[closing + 1] = MarkerChar

\* C9 witness: an embedding of a caret followed by a non-empty selection that
\* starts after text the caret does not cover.
C9_Witness ==
    /\ Embedded
    /\ Len(selectedRanges) = 2
    /\ IsCaret(selectedRanges[1])
    /\ selectedRanges[1].end < selectedRanges[2].start
    /\ selectedRanges[2].start < selectedRanges[2].end

\* The loop is about to run a segment that calls edit.replace.
AboutToEmit ==
    /\ pc = "loop"
    /\ idx <= Len(diffs)
    /\ \/ diffs[idx].op = INSERT
       \/ diffs[idx].op = EQUAL /\ toRemove # 0

CountNonMarkers(t) == Len(WithoutMarkers(t))

\* Non-marker characters of the segments of the given kinds among the first n.
RECURSIVE Consumed(_, _)
Consumed(n, kinds) ==
    IF n = 0 THEN 0
    ELSE Consumed(n - 1, kinds)
             + (IF diffs[n].op \in kinds THEN CountNonMarkers(diffs[n].str) ELSE 0)

\* The last segment before n + 1 that is not part of the pending run of DELETEs.
RECURSIVE BeforePendingRun(_)
BeforePendingRun(n) ==
    IF n = 0 \/ diffs[n].op # DELETE THEN n ELSE BeforePendingRun(n - 1)

\* The position in the unmodified original at which the pending run starts.
OriginalPosition == Consumed(BeforePendingRun(idx - 1), {EQUAL, DELETE})

\* C10 (as stated): when an operation is emitted, offset is the position in
\* the unmodified original: the non-marker characters of the EQUAL and DELETE
\* segments consumed before the pending deletion run.
C10_OffsetIsOriginalPosition ==
    AboutToEmit => offset = OriginalPosition

\* C10 (amended): when an operation is emitted, offset is the position in the
\* formatted text, the characters of the EQUAL and INSERT segments consumed so
\* far; it is the position in the unmodified original exactly when the INSERT
\* segments so far are as long as the non-marker text deleted before the
\* pending run.
C10_OffsetIsFormattedPosition ==
    AboutToEmit =>
        /\ offset = Consumed(idx - 1, {EQUAL, INSERT})
        /\ (offset = OriginalPosition) <=>
               (Consumed(idx - 1, {INSERT})
                    = Consumed(BeforePendingRun(idx - 1), {DELETE}))

\* C10 witness: an operation about to be emitted after an earlier INSERT, at
\* an offset that is not the position in the original.
C10_Witness ==
    /\ AboutToEmit
    /\ edits # <<>>
    /\ \E n \in 1..(idx - 1) : diffs[n].op = INSERT
    /\ offset # OriginalPosition


\* The offset in the formatted text at step p of Flat(diffs): the EQUAL and
\* INSERT characters before it.
DestinationAt(p) ==
    LET f == Flat(diffs)
    IN  Cardinality({q \in 1..(p - 1) : f[q].op \in {EQUAL, INSERT}})

\* An INSERT or EQUAL step lies between steps p and r of Flat(diffs).
SeparatedBetween(p, r) ==
    LET f == Flat(diffs)
    IN  \E q \in (p + 1)..(r - 1) : f[q].op \in {EQUAL, INSERT}

\* C12: the i-th returned selection is built from the (2i-1)-th and the 2i-th
\* marker in segment order, each mapped to the destination offset at its
\* DELETE segment, also when the two markers lie in different DELETE segments;
\* output selection i belongs to input selection i.
C12_SelectionFromMarkerPair ==
    DoneByDiff =>
        \A i \in 1..Len(selectedRanges) :
            /\ i \in DOMAIN result
            /\ NthMarker(2 * i - 1) # 0
            /\ NthMarker(2 * i) # 0
            /\ result[i] = [start |-> DestinationAt(NthMarker(2 * i - 1)),
                            end |-> DestinationAt(NthMarker(2 * i))]

\* C12 witness: two selections, the markers of the second in different DELETE
\* segments with an INSERT between them.
C12_Witness ==
    /\ DoneByDiff
    /\ Len(selectedRanges) = 2
    /\ \E q \in (NthMarker(3) + 1)..(NthMarker(4) - 1) : Flat(diffs)[q].op = INSERT

RECURSIVE RemovedBy(_)
RemovedBy(ops) ==
    IF ops = <<>> THEN 0 ELSE (Head(ops).end - Head(ops).start) + RemovedBy(Tail(ops))

\* Non-marker characters of the DELETE segments since the last EQUAL or INSERT.
PendingDeleted == Consumed(idx - 1, {DELETE}) - Consumed(BeforePendingRun(idx - 1), {DELETE})

InTranslator == pc = "loop" \/ DoneByDiff

\* C13: at every step of the segment loop toRemove is the number of non-marker
\* characters of the DELETE segments since the last EQUAL or INSERT; it is
\* never negative, the emitted ranges cover exactly the non-marker characters
\* deleted, and no replacement text contains the marker.
C13_PendingDeleteLength ==
    InTranslator =>
        /\ (pc = "loop" => toRemove = PendingDeleted)
        /\ toRemove >= 0
        /\ \A i \in 1..Len(edits) :
               /\ edits[i].end >= edits[i].start
               /\ ~HasMarker(edits[i].text)
        /\ RemovedBy(edits) = Consumed(BeforePendingRun(idx - 1), {DELETE})

\* C13 witness: in the loop, a pending run that holds a marker and real text,
\* after an operation that removed text.
C13_Witness ==
    /\ pc = "loop"
    /\ idx > 1
    /\ diffs[idx - 1].op = DELETE
    /\ HasMarker(diffs[idx - 1].str)
    /\ toRemove > 0
    /\ \E i \in 1..Len(edits) : edits[i].end > edits[i].start

\* The operations applied one after another, each to the text as the ones
\* before it left it.
RECURSIVE ApplyInOrder(_, _)
ApplyInOrder(buf, ops) ==
    IF ops = <<>>
    THEN buf
    ELSE ApplyInOrder(Slice(buf, 0, Head(ops).start) \o Head(ops).text
                          \o Slice(buf, Head(ops).end, Len(buf)),
                      Tail(ops))

\* C17: applying the emitted operations in emission order, each to the buffer
\* as already modified, yields F from O; before each operation the buffer is
\* the first `offset` characters of F followed by the non-marker text of O not
\* yet consumed.
C17_SequentialRoundTrip ==
    /\ pc = "loop" =>
           ApplyInOrder(original, edits)
               = Slice(formatted, 0, offset)
                     \o Slice(original, OriginalPosition, Len(original))
    /\ DoneByDiff => ApplyInOrder(original, edits) = formatted

\* C17 witness: in the loop with text pending deletion, after an operation
\* that changed the length of the buffer and moved offset.
C17_Witness ==
    /\ pc = "loop"
    /\ toRemove > 0
    /\ offset > 0
    /\ \E i \in 1..Len(edits) : Len(edits[i].text) # edits[i].end - edits[i].start

\* C18: on the diff path the returned selections are sorted and do not
\* overlap: r_i.start <= r_i.end <= r_(i+1).start.
C18_ResultSorted ==
    DoneByDiff =>
        /\ \A i \in 1..Len(result) : result[i].start <= result[i].end
        /\ \A i \in 1..(Len(result) - 1) : result[i].end <= result[i + 1].start

\* C18 witness: two returned selections that touch, the first not a caret,
\* after an edit.
C18_Witness ==
    /\ DoneByDiff
    /\ Len(result) = 2
    /\ result[1].start < result[1].end
    /\ result[1].end = result[2].start
    /\ edits # <<>>


\* The number of markers in the DELETE segments.
MarkerCount == Cardinality({p \in 1..Len(Flat(diffs)) : IsMarkerStep(Flat(diffs)[p])})

OddMarkers == MarkerCount % 2 = 1

\* C14: with an odd number of markers in the DELETE segments the translator
\* runs to its return, every pair of markers gives a range with both
\* coordinates, and the unmatched last marker gives a zero-length range at the
\* offset recorded for it.
C14_UnmatchedMarkerIsCaret ==
    OddMarkers =>
        /\ pc = "loop" => ENABLED SegNext
        /\ Done =>
               /\ Len(result) = (MarkerCount + 1) \div 2
               /\ \A i \in 1..Len(result) :
                      /\ DOMAIN result[i] = {"start", "end"}
                      /\ result[i].start \in Nat
                      /\ result[i].end \in Nat
               /\ \A i \in 1..(Len(result) - 1) :
                      result[i] = [start |-> DestinationAt(NthMarker(2 * i - 1)),
                                   end |-> DestinationAt(NthMarker(2 * i))]
               /\ result[Len(result)]
                      = [start |-> DestinationAt(NthMarker(MarkerCount)),
                         end |-> DestinationAt(NthMarker(MarkerCount))]

\* C14 witness: three markers, the unmatched one recorded at an offset > 0,
\* and the run returned.
C14_Witness ==
    /\ Done
    /\ MarkerCount = 3
    /\ Len(result) = 2
    /\ result[2].start > 0

(***************************************************************************)
(* The save hook.                                                          *)
(***************************************************************************)
\* The attempts whose formatter has exited and whose result is about to be
\* handled.
ReadyAttempts == {i \in 1..Len(attempts) : attempts[i].exit # <<>>}

\* The step handles the result of attempt i.
Handles(i) == i \in ReadyAttempts /\ Len(attempts') = Len(attempts) - 1

\* C11: a result computed from a snapshot is never applied to a buffer whose
\* text differs from that snapshot: handling the result of a stale attempt
\* leaves the buffer text and the selections as they are.
C11_StaleResultNotApplied ==
    [][\A i \in 1..Len(attempts) :
           (Handles(i) /\ buffer # attempts[i].text)
               => (buffer' = buffer /\ editorSelections' = editorSelections)]_vars

\* C15: when the formatter exits with a nonzero code, no edit is applied, no
\* re-save is scheduled, no formatter is started, and one notification is
\* shown.
C15_FailureNotified ==
    [][\A i \in 1..Len(attempts) :
           (Handles(i) /\ attempts[i].exit[1].code # 0)
               => /\ buffer' = buffer
                  /\ timers' = timers
                  /\ runs' = runs
                  /\ toasts' = toasts + 1]_vars

====
